---- MODULE Spec2Model ----
(***************************************************************************)
(* Phosphor Icons MCP server (src/src/index.ts): the get-icon and          *)
(* get-multiple-icons tool handlers, the name sanitizer, the asset         *)
(* locator, the bounded fetch, the regex-based style transformer and the   *)
(* similar-icon suggestion filter.  Strings are TLA+ strings handled       *)
(* character by character, so that trimming, lower-casing, stripping and   *)
(* the regular-expression replacements are computed as the code computes   *)
(* them.                                                                   *)
(***************************************************************************)
EXTENDS Integers, Sequences, FiniteSets, TLC

(***************************************************************************)
(* Bounds of the model.                                                    *)
(***************************************************************************)
\* longest name of the exhaustively enumerated short names
MaxNameLen == 2
\* longest names list of a get-multiple-icons request
MaxBatch == 2

(***************************************************************************)
(* Characters and strings.                                                 *)
(***************************************************************************)
CharAt(s, i) == SubSeq(s, i, i)

LowerAlpha == "abcdefghijklmnopqrstuvwxyz"
UpperAlpha == "ABCDEFGHIJKLMNOPQRSTUVWXYZ"
DigitChars == "0123456789"

LowerSet == {CharAt(LowerAlpha, i) : i \in 1..26}
UpperSet == {CharAt(UpperAlpha, i) : i \in 1..26}
DigitSet == {CharAt(DigitChars, i) : i \in 1..10}

\* the characters String.prototype.trim removes (those the model's inputs use)
WhiteSpace == {" ", "\t", "\n"}

\* the character class [a-z0-9-]
AllowedChars == LowerSet \cup DigitSet \cup {"-"}

\* String.prototype.toLowerCase on one character
ToLowerChar(c) ==
  IF c \in UpperSet
    THEN CharAt(LowerAlpha, CHOOSE i \in 1..26 : CharAt(UpperAlpha, i) = c)
    ELSE c

RECURSIVE ToLowerCase(_)
ToLowerCase(s) ==
  IF s = "" THEN "" ELSE ToLowerChar(Head(s)) \o ToLowerCase(Tail(s))

RECURSIVE TrimStart(_)
TrimStart(s) ==
  IF s # "" /\ Head(s) \in WhiteSpace THEN TrimStart(Tail(s)) ELSE s

RECURSIVE TrimEnd(_)
TrimEnd(s) ==
  IF s # "" /\ CharAt(s, Len(s)) \in WhiteSpace
    THEN TrimEnd(SubSeq(s, 1, Len(s) - 1))
    ELSE s

\* String.prototype.trim
Trim(s) == TrimEnd(TrimStart(s))

\* mutant of StripDisallowed: without the g flag only the first disallowed
\* character is removed
StripDisallowedFirstOnly(s) ==
  IF \E i \in 1..Len(s) : CharAt(s, i) \notin AllowedChars
    THEN LET i == CHOOSE i \in 1..Len(s) :
                    /\ CharAt(s, i) \notin AllowedChars
                    /\ \A j \in 1..(i - 1) : CharAt(s, j) \in AllowedChars
         IN  SubSeq(s, 1, i - 1) \o SubSeq(s, i + 1, Len(s))
    ELSE s

\* s.replace(/[^a-z0-9-]/g, "")
RECURSIVE StripDisallowed(_)
StripDisallowed(s) ==
  IF s = "" THEN ""
  ELSE IF Head(s) \in AllowedChars
    THEN Head(s) \o StripDisallowed(Tail(s))
    ELSE StripDisallowed(Tail(s))

\* mutant of Sanitize: the disallowed characters are not stripped
SanitizeKeepsAll(name) == ToLowerCase(Trim(name))

\* name.trim().toLowerCase().replace(/[^a-z0-9-]/g, "")
Sanitize(name) == StripDisallowed(ToLowerCase(Trim(name)))

\* s.startsWith(t, from - 1): t occurs in s at the 1-based position from
StartsWithAt(s, t, from) ==
  /\ from + Len(t) - 1 <= Len(s)
  /\ SubSeq(s, from, from + Len(t) - 1) = t

StartsWith(s, t) == StartsWithAt(s, t, 1)

\* String.prototype.includes
Includes(s, t) == \E i \in 1..(Len(s) - Len(t) + 1) : StartsWithAt(s, t, i)

\* s.indexOf(t, from - 1) as a 1-based position, 0 when t does not occur
IndexFrom(s, t, from) ==
  IF \E i \in from..(Len(s) - Len(t) + 1) : StartsWithAt(s, t, i)
    THEN CHOOSE i \in from..(Len(s) - Len(t) + 1) :
           /\ StartsWithAt(s, t, i)
           /\ \A j \in from..(i - 1) : ~StartsWithAt(s, t, j)
    ELSE 0

\* String.prototype.split("-")
RECURSIVE SplitHyphen(_)
SplitHyphen(s) ==
  LET i == IndexFrom(s, "-", 1)
  IN  IF i = 0 THEN <<s>>
      ELSE <<SubSeq(s, 1, i - 1)>> \o SplitHyphen(SubSeq(s, i + 1, Len(s)))

\* template-literal formatting of a positive integer, `${size}`
RECURSIVE NumToStr(_)
NumToStr(n) ==
  IF n < 10 THEN CharAt(DigitChars, n + 1)
  ELSE NumToStr(n \div 10) \o CharAt(DigitChars, (n % 10) + 1)

(***************************************************************************)
(* String.prototype.replace with a regular expression and a replacement    *)
(* string, for the patterns the style transformer uses.                    *)
(***************************************************************************)
\* the replacement-string patterns of String.prototype.replace for a regular
\* expression without capture groups: $$ is a dollar sign, $& the matched
\* text, $` the text before the match, $' the text after it; any other
\* character (a $ before anything else included) is copied
RECURSIVE GetSubstitution(_, _, _, _)
GetSubstitution(matched, str, position, replacement) ==
  IF replacement = "" THEN ""
  ELSE IF StartsWith(replacement, "$$")
    THEN "$" \o GetSubstitution(matched, str, position,
                                SubSeq(replacement, 3, Len(replacement)))
  ELSE IF StartsWith(replacement, "$&")
    THEN matched \o GetSubstitution(matched, str, position,
                                    SubSeq(replacement, 3, Len(replacement)))
  ELSE IF StartsWith(replacement, "$`")
    THEN SubSeq(str, 1, position - 1)
           \o GetSubstitution(matched, str, position,
                              SubSeq(replacement, 3, Len(replacement)))
  ELSE IF StartsWith(replacement, "$'")
    THEN SubSeq(str, position + Len(matched), Len(str))
           \o GetSubstitution(matched, str, position,
                              SubSeq(replacement, 3, Len(replacement)))
  ELSE Head(replacement)
         \o GetSubstitution(matched, str, position, Tail(replacement))

\* position of the first match of /attr="[^"]*"/ at or after from, 0 if none
MatchAttr(s, attr, from) ==
  LET open == attr \o "=\""
      Hit(i) == /\ StartsWithAt(s, open, i)
                /\ IndexFrom(s, "\"", i + Len(open)) # 0
  IN  IF \E i \in from..Len(s) : Hit(i)
        THEN CHOOSE i \in from..Len(s) :
               Hit(i) /\ \A k \in from..(i - 1) : ~Hit(k)
        ELSE 0

\* s.replace(/attr="[^"]*"/g, replacement) when global, and
\* s.replace(/attr="[^"]*"/, replacement) otherwise, from position from on
RECURSIVE ReplaceAttrFrom(_, _, _, _, _)
ReplaceAttrFrom(s, attr, replacement, global, from) ==
  LET i == MatchAttr(s, attr, from)
  IN  IF i = 0 THEN SubSeq(s, from, Len(s))
      ELSE LET j == IndexFrom(s, "\"", i + Len(attr) + 2)
               matched == SubSeq(s, i, j)
           IN  SubSeq(s, from, i - 1)
                 \o GetSubstitution(matched, s, i, replacement)
                 \o (IF global
                       THEN ReplaceAttrFrom(s, attr, replacement, global, j + 1)
                       ELSE SubSeq(s, j + 1, Len(s)))

ReplaceAttrAll(s, attr, replacement) ==
  ReplaceAttrFrom(s, attr, replacement, TRUE, 1)

ReplaceAttrFirst(s, attr, replacement) ==
  ReplaceAttrFrom(s, attr, replacement, FALSE, 1)

\* position of the first match of /<svg([^>]*)>/, 0 if none
MatchSvgTag(s) ==
  LET Hit(i) == StartsWithAt(s, "<svg", i) /\ IndexFrom(s, ">", i + 4) # 0
  IN  IF \E i \in 1..Len(s) : Hit(i)
        THEN CHOOSE i \in 1..Len(s) : Hit(i) /\ \A k \in 1..(i - 1) : ~Hit(k)
        ELSE 0

\* s.replace(/<svg([^>]*)>/, `<svg$1 width="${size}" height="${size}">`)
InjectSize(s, size) ==
  LET i == MatchSvgTag(s)
  IN  IF i = 0 THEN s
      ELSE LET j == IndexFrom(s, ">", i + 4)
               group1 == SubSeq(s, i + 4, j - 1)
           IN  SubSeq(s, 1, i - 1)
                 \o "<svg" \o group1
                 \o " width=\"" \o NumToStr(size) \o "\""
                 \o " height=\"" \o NumToStr(size) \o "\">"
                 \o SubSeq(s, j + 1, Len(s))

(***************************************************************************)
(* Style transformer: the colour and size steps of both handlers.          *)
(***************************************************************************)
Weights == {"thin", "light", "regular", "bold", "fill", "duotone"}

\* the `if (color) { ... }` block; color is a non-empty string here
ApplyColor(svgContent, selectedWeight, color) ==
  IF selectedWeight = "fill"
    THEN ReplaceAttrAll(svgContent, "fill", "fill=\"" \o color \o "\"")
  ELSE IF selectedWeight = "duotone"
    THEN ReplaceAttrAll(
           ReplaceAttrAll(svgContent, "fill", "fill=\"" \o color \o "\""),
           "stroke", "stroke=\"" \o color \o "\"")
  ELSE ReplaceAttrAll(
         ReplaceAttrAll(svgContent, "fill", "fill=\"" \o color \o "\""),
         "stroke", "stroke=\"" \o color \o "\"")

\* the `if (size) { ... }` block; size is a non-zero number here
ApplySize(svgContent, size) ==
  IF ~Includes(svgContent, "width=")
    THEN InjectSize(svgContent, size)
    ELSE ReplaceAttrFirst(
           ReplaceAttrFirst(svgContent, "width",
                            "width=\"" \o NumToStr(size) \o "\""),
           "height", "height=\"" \o NumToStr(size) \o "\"")

(***************************************************************************)
(* Catalog and suggestion filter.                                          *)
(***************************************************************************)
PHOSPHOR_CORE_RAW_BASE ==
  "https://raw.githubusercontent.com/phosphor-icons/core/main/assets"

\* the static catalog, in its insertion order
POPULAR_ICONS ==
  <<
    [name |-> "activity", category |-> "health", tags |-> <<"fitness", "health", "monitor">>],
    [name |-> "alarm", category |-> "time", tags |-> <<"clock", "time", "alert">>],
    [name |-> "archive", category |-> "storage", tags |-> <<"box", "storage", "save">>],
    [name |-> "arrow-left", category |-> "arrows", tags |-> <<"navigation", "back", "previous">>],
    [name |-> "arrow-right", category |-> "arrows", tags |-> <<"navigation", "forward", "next">>],
    [name |-> "at", category |-> "communication", tags |-> <<"email", "mention", "social">>],
    [name |-> "bell", category |-> "communication", tags |-> <<"notification", "alert", "sound">>],
    [name |-> "book", category |-> "education", tags |-> <<"read", "library", "documentation">>],
    [name |-> "calendar", category |-> "time", tags |-> <<"date", "schedule", "event">>],
    [name |-> "camera", category |-> "media", tags |-> <<"photo", "image", "capture">>],
    [name |-> "chat", category |-> "communication", tags |-> <<"message", "conversation", "talk">>],
    [name |-> "check", category |-> "interface", tags |-> <<"tick", "success", "done">>],
    [name |-> "clock", category |-> "time", tags |-> <<"time", "hour", "minute">>],
    [name |-> "cloud", category |-> "weather", tags |-> <<"sky", "storage", "sync">>],
    [name |-> "code", category |-> "development", tags |-> <<"programming", "developer", "brackets">>],
    [name |-> "copy", category |-> "interface", tags |-> <<"duplicate", "clipboard", "paste">>],
    [name |-> "download", category |-> "interface", tags |-> <<"save", "export", "arrow">>],
    [name |-> "edit", category |-> "interface", tags |-> <<"pencil", "modify", "write">>],
    [name |-> "eye", category |-> "interface", tags |-> <<"view", "see", "visible">>],
    [name |-> "file", category |-> "files", tags |-> <<"document", "paper", "text">>],
    [name |-> "folder", category |-> "files", tags |-> <<"directory", "collection", "organize">>],
    [name |-> "gear", category |-> "interface", tags |-> <<"settings", "config", "preferences">>],
    [name |-> "heart", category |-> "social", tags |-> <<"like", "favorite", "love">>],
    [name |-> "house", category |-> "interface", tags |-> <<"home", "main", "dashboard">>],
    [name |-> "image", category |-> "media", tags |-> <<"picture", "photo", "gallery">>],
    [name |-> "info", category |-> "interface", tags |-> <<"information", "help", "about">>],
    [name |-> "link", category |-> "interface", tags |-> <<"chain", "url", "hyperlink">>],
    [name |-> "list", category |-> "interface", tags |-> <<"menu", "items", "bullets">>],
    [name |-> "lock", category |-> "security", tags |-> <<"secure", "private", "protected">>],
    [name |-> "magnifying-glass", category |-> "interface", tags |-> <<"search", "find", "zoom">>],
    [name |-> "map-pin", category |-> "location", tags |-> <<"marker", "location", "place">>],
    [name |-> "music-note", category |-> "media", tags |-> <<"audio", "sound", "song">>],
    [name |-> "paper-plane-tilt", category |-> "communication", tags |-> <<"send", "message", "mail">>],
    [name |-> "play", category |-> "media", tags |-> <<"start", "video", "audio">>],
    [name |-> "plus", category |-> "interface", tags |-> <<"add", "new", "create">>],
    [name |-> "printer", category |-> "office", tags |-> <<"print", "paper", "document">>],
    [name |-> "question", category |-> "interface", tags |-> <<"help", "support", "unknown">>],
    [name |-> "share", category |-> "social", tags |-> <<"export", "send", "distribute">>],
    [name |-> "shopping-cart", category |-> "commerce", tags |-> <<"buy", "purchase", "shop">>],
    [name |-> "star", category |-> "social", tags |-> <<"favorite", "rating", "bookmark">>],
    [name |-> "trash", category |-> "interface", tags |-> <<"delete", "remove", "bin">>],
    [name |-> "upload", category |-> "interface", tags |-> <<"import", "arrow", "send">>],
    [name |-> "user", category |-> "people", tags |-> <<"person", "profile", "account">>],
    [name |-> "warning", category |-> "interface", tags |-> <<"alert", "caution", "danger">>],
    [name |-> "x", category |-> "interface", tags |-> <<"close", "cancel", "remove">>]
  >>

\* the callback of POPULAR_ICONS.filter in the not-found branch
SimilarMatch(icon, searchTerm) ==
  LET iconName == ToLowerCase(icon.name)
      iconParts == SplitHyphen(iconName)
      termParts == SplitHyphen(searchTerm)
  IN  \/ Includes(iconName, searchTerm)
      \/ Includes(searchTerm, iconName)
      \/ \E k \in 1..Len(iconParts) : Includes(searchTerm, iconParts[k])
      \/ \E k \in 1..Len(termParts) : Includes(iconName, termParts[k])
      \/ \E k \in 1..Len(icon.tags) :
           Includes(ToLowerCase(icon.tags[k]), searchTerm)
      \/ Includes(ToLowerCase(icon.category), searchTerm)

\* Array.prototype.slice(0, n)
Slice(seq, n) == SubSeq(seq, 1, IF Len(seq) < n THEN Len(seq) ELSE n)

\* mutant of SimilarIcons: the limit of the batch handler is used
SimilarIconsUpToThree(sanitizedName) ==
  Slice(SelectSeq(POPULAR_ICONS,
                  LAMBDA icon : SimilarMatch(icon, ToLowerCase(sanitizedName))),
        3)

\* POPULAR_ICONS.filter(...).slice(0, 5) of get-icon
SimilarIcons(sanitizedName) ==
  Slice(SelectSeq(POPULAR_ICONS,
                  LAMBDA icon : SimilarMatch(icon, ToLowerCase(sanitizedName))),
        5)

\* POPULAR_ICONS.filter(...).slice(0, 3) of get-multiple-icons
BatchSimilarIcons(sanitizedName) ==
  Slice(SelectSeq(POPULAR_ICONS,
                  LAMBDA icon : SimilarMatch(icon, ToLowerCase(sanitizedName))),
        3)

\* the names of a list of catalog entries, as the response lists them
IconNames(icons) == [k \in 1..Len(icons) |-> icons[k].name]

(***************************************************************************)
(* Optional arguments: undefined, or a defined value.                      *)
(***************************************************************************)
Undefined == [defined |-> FALSE]
Def(v) == [defined |-> TRUE, value |-> v]

(***************************************************************************)
(* Validation and asset location of get-icon.                              *)
(***************************************************************************)
\* !name || typeof name !== "string" || name.trim().length === 0
NameMissing(name) == name = "" \/ Len(Trim(name)) = 0

\* mutant of NameRejected: a cleaned name is accepted unless nothing is left
NameRejectedOnlyEmpty(name) == Sanitize(name) = ""

\* sanitizedName !== name.toLowerCase()
NameRejected(name) == Sanitize(name) # ToLowerCase(name)

\* mutant of SizeRejected: a size of 0 passes
SizeRejectedAllowsZero(size) ==
  size.defined /\ (size.value < 0 \/ size.value > 4096)

\* size !== undefined && (typeof size !== "number" || size <= 0 || size > 4096)
SizeRejected(size) == size.defined /\ (size.value <= 0 \/ size.value > 4096)

\* weight || config.defaultWeight
SelectWeight(weight, config) ==
  IF weight.defined THEN weight.value ELSE config.defaultWeight

\* mutant of FileName: the weight suffix is appended for every weight
FileNameAlwaysSuffixed(sanitizedName, selectedWeight) ==
  sanitizedName \o "-" \o selectedWeight \o ".svg"

\* selectedWeight === "regular" ? `${sanitizedName}.svg`
\*                              : `${sanitizedName}-${selectedWeight}.svg`
FileName(sanitizedName, selectedWeight) ==
  IF selectedWeight = "regular"
    THEN sanitizedName \o ".svg"
    ELSE sanitizedName \o "-" \o selectedWeight \o ".svg"

\* `${PHOSPHOR_CORE_RAW_BASE}/${selectedWeight}/${fileName}`
AssetUrl(selectedWeight, fileName) ==
  PHOSPHOR_CORE_RAW_BASE \o "/" \o selectedWeight \o "/" \o fileName

\* Response.ok
ResponseOk(status) == status >= 200 /\ status <= 299

\* !(!svgContent || !svgContent.trim().startsWith("<svg"))
LooksLikeSvg(svgContent) ==
  svgContent # "" /\ StartsWith(Trim(svgContent), "<svg")

\* if (color) {...} followed by if (size) {...} of get-icon
StyleIcon(svgContent, selectedWeight, color, size) ==
  LET coloured == IF color.defined /\ color.value # ""
                    THEN ApplyColor(svgContent, selectedWeight, color.value)
                    ELSE svgContent
  IN  IF size.defined /\ size.value # 0
        THEN ApplySize(coloured, size.value)
        ELSE coloured

\* mutant of BatchStyleIcon: the colour goes to the fill attributes only,
\* whatever the weight
BatchStyleIconFillOnly(svgContent, selectedWeight, color, size) ==
  LET coloured == IF color.defined /\ color.value # ""
                    THEN ApplyColor(svgContent, "fill", color.value)
                    ELSE svgContent
  IN  IF size.defined /\ size.value # 0
        THEN ApplySize(coloured, size.value)
        ELSE coloured

\* if (color) {...} followed by if (size) {...} of get-multiple-icons
BatchStyleIcon(svgContent, selectedWeight, color, size) ==
  LET coloured == IF color.defined /\ color.value # ""
                    THEN ApplyColor(svgContent, selectedWeight, color.value)
                    ELSE svgContent
  IN  IF size.defined /\ size.value # 0
        THEN ApplySize(coloured, size.value)
        ELSE coloured

\* The value passed as names: an array of items, or a value that is not an
\* array (items are then what its indices hold, as for an array-like object).
ArrayOf(items) == [isArray |-> TRUE, items |-> items]
NotArray(items) == [isArray |-> FALSE, items |-> items]

\* !Array.isArray(names) || names.length === 0
NamesMissing(names) == ~names.isArray \/ Len(names.items) = 0

\* mutant of TooManyNames: a list of 50 names is already too long
TooManyNamesAtFifty(names) == Len(names.items) >= 50

\* names.length > 50
TooManyNames(names) == Len(names.items) > 50

(***************************************************************************)
(* search-icons and list-categories: validation, filter and category list. *)
(***************************************************************************)
\* Numbers that may have a fractional part are held as multiples of 1/Scale.
Scale == 2
Num(n) == n * Scale

\* Math.floor
Floor(x) == x \div Scale

Min(a, b) == IF a < b THEN a ELSE b
Max(a, b) == IF a > b THEN a ELSE b

\* ({ query, limit = 10 }): the default of an undefined limit
DefaultLimit(limit) == IF limit.defined THEN limit.value ELSE Num(10)

\* !query || typeof query !== "string" || query.trim().length === 0
QueryMissing(query) == query = "" \/ Len(Trim(query)) = 0

\* mutant of LimitRejected: only the upper end is tested
LimitRejectedOnlyAbove(limit) == limit > Num(100)

\* limit !== undefined && (typeof limit !== "number" || limit <= 0 || limit > 100)
LimitRejected(limit) == limit <= 0 \/ limit > Num(100)

\* Math.min(Math.max(1, Math.floor(limit || 10)), 100)
SafeLimit(limit) ==
  Min(Max(1, Floor(IF limit = 0 THEN Num(10) ELSE limit)), 100)

\* query.toLowerCase().trim()
SearchTerm(query) == Trim(ToLowerCase(query))

\* mutant of SearchMatch: only the name is searched
SearchMatchNameOnly(icon, searchTerm) ==
  Includes(ToLowerCase(icon.name), searchTerm)

\* the predicate of the search filter
SearchMatch(icon, searchTerm) ==
  \/ Includes(ToLowerCase(icon.name), searchTerm)
  \/ Includes(ToLowerCase(icon.category), searchTerm)
  \/ \E k \in 1..Len(icon.tags) : Includes(ToLowerCase(icon.tags[k]), searchTerm)

\* POPULAR_ICONS.filter(...).slice(0, safeLimit)
SearchMatches(searchTerm, safeLimit) ==
  Slice(SelectSeq(POPULAR_ICONS, LAMBDA icon : SearchMatch(icon, searchTerm)),
        safeLimit)

\* Array.from(new Set(seq)): the first occurrences, in their order
RECURSIVE Distinct(_)
Distinct(seq) ==
  IF seq = <<>> THEN <<>>
  ELSE LET front == Distinct(SubSeq(seq, 1, Len(seq) - 1))
           last  == seq[Len(seq)]
       IN  IF \E k \in 1..Len(front) : front[k] = last
             THEN front
             ELSE Append(front, last)

\* the code units of the characters of the model, in ascending order
CodeOrder == " -/" \o DigitChars \o UpperAlpha \o LowerAlpha
CharCode(c) == CHOOSE i \in 1..Len(CodeOrder) : CharAt(CodeOrder, i) = c

\* the default comparison of Array.prototype.sort: by code units
RECURSIVE StringLess(_, _)
StringLess(a, b) ==
  IF b = "" THEN FALSE
  ELSE IF a = "" THEN TRUE
  ELSE IF Head(a) = Head(b) THEN StringLess(Tail(a), Tail(b))
  ELSE CharCode(Head(a)) < CharCode(Head(b))

\* mutant of Sort: the order of first occurrence is kept
SortKeepsOrder(seq) == seq

\* Array.prototype.sort() without a comparison function
RECURSIVE Sort(_)
Sort(seq) ==
  IF seq = <<>> THEN <<>>
  ELSE LET rest == Sort(Tail(seq))
           x    == Head(seq)
           before == SelectSeq(rest, LAMBDA y : StringLess(y, x))
           after == SelectSeq(rest, LAMBDA y : ~StringLess(y, x))
       IN  before \o <<x>> \o after

\* Array.from(new Set(POPULAR_ICONS.map(icon => icon.category)...)).sort()
Categories ==
  Sort(Distinct([k \in 1..Len(POPULAR_ICONS) |-> POPULAR_ICONS[k].category]))

\* POPULAR_ICONS.filter(icon => icon.category === cat).length
CategoryCount(cat) ==
  Len(SelectSeq(POPULAR_ICONS, LAMBDA icon : icon.category = cat))

\* POPULAR_ICONS.find(icon => icon.category === cat)
CategoryExample(cat) ==
  Head(SelectSeq(POPULAR_ICONS, LAMBDA icon : icon.category = cat)).name

\* mutant of CatalogAfterCategories: sort() is called on the catalog itself,
\* with the categories as keys
CatalogSortedInPlace(array) ==
  LET Position(i) ==
        Cardinality({j \in 1..Len(array) :
                       \/ StringLess(array[j].category, array[i].category)
                       \/ (array[j].category = array[i].category /\ j <= i)})
  IN  [p \in 1..Len(array) |->
         array[CHOOSE i \in 1..Len(array) : Position(i) = p]]

\* The catalog array after the category list has been built from it: map,
\* filter and Array.from each build a new array, and sort() reorders the
\* array it is called on, which is the one built by Array.from.
CatalogAfterCategories(array) == array

\* the fields the catalog resource prints for an entry
CatalogEntryText(icon) ==
  [name |-> icon.name, category |-> icon.category, tags |-> icon.tags]

\* one line of the category list
CategoryLine(cat) ==
  [category |-> cat, count |-> CategoryCount(cat),
   example |-> CategoryExample(cat)]

(***************************************************************************)
(* Inputs of the model.                                                    *)
(***************************************************************************)
NameChars == {"a", "A", "-", " ", "/"}

RECURSIVE StringsUpTo(_)
StringsUpTo(n) ==
  IF n = 0 THEN {""}
  ELSE LET shorter == StringsUpTo(n - 1)
       IN  shorter \cup {s \o c : s \in shorter, c \in NameChars}

IconNameInputs ==
  {"heart", "Heart", " heart ", "arrow", "map", "zzz", "icon@name",
   "../etc", "a.b", "a?b", "a#b", "a%2f", "\t"}
    \cup StringsUpTo(MaxNameLen)

WeightInputs == {Undefined} \cup {Def(w) : w \in Weights}

ColorInputs == {Undefined, Def(""), Def("#F00"), Def("$&")}

SizeInputs == {Undefined} \cup {Def(n) : n \in {-1, 0, 1, 32, 4096, 4097}}

StatusInputs == {200, 404, 500}

SvgBodies ==
  {"<svg viewBox=\"0 0 8 8\"><path d=\"M0\"/></svg>",
   "<svg fill=\"currentColor\"><path fill=\"none\" stroke=\"#000\"/></svg>",
   "<svg width=\"256\" height=\"256\" fill=\"a\"><rect width=\"8\" height=\"8\" stroke=\"b\"/></svg>",
   "<svg viewBox=\"0 0 8 8\"><rect width=\"8\" height=\"8\" fill=\"none\"/><path stroke=\"c\" stroke-width=\"16\"/></svg>",
   "<svg stroke-width=\"2\" width=\"10\" height=\"10\"><path stroke=\"c\"/></svg>",
   "<svg height=\"5\"><rect height=\"3\"/></svg>",
   "\n<svg><path stroke=\"c\" stroke-width=\"16\"/></svg>"}

OtherBodies == {"", "404: Not Found", "<html><svg></svg></html>"}

BodyInputs == SvgBodies \cup OtherBodies

\* messages of the errors a rejected fetch and a rejected body read carry
FetchCauseInputs == {"fetch failed"}
BodyCauseInputs == {"terminated"}

\* the get-icon requests of the model: every name under every weight, and
\* every weight, colour and size for one name and for rejected names
IconRequests ==
  {[name |-> n, weight |-> w, color |-> Undefined, size |-> Undefined] :
     n \in IconNameInputs, w \in WeightInputs}
    \cup {[name |-> "heart", weight |-> Def(w), color |-> c, size |-> s] :
            w \in Weights, c \in ColorInputs, s \in SizeInputs}
    \cup {[name |-> n, weight |-> Undefined, color |-> Undefined, size |-> s] :
            n \in {"", "a/b"}, s \in SizeInputs}

BatchNameInputs == {"heart", "a/b", " "}

RECURSIVE ListsUpTo(_)
ListsUpTo(n) ==
  IF n = 0 THEN {<<>>}
  ELSE LET shorter == ListsUpTo(n - 1)
       IN  shorter \cup {Append(l, s) : l \in shorter, s \in BatchNameInputs}

\* a list of n blank names
BlankList(n) == [k \in 1..n |-> " "]

\* a list of n times the same name
FilledList(n, name) == [k \in 1..n |-> name]

NamesInputs ==
  {ArrayOf(l) : l \in ListsUpTo(MaxBatch)
                     \cup {BlankList(50), BlankList(51),
                           FilledList(51, "heart")}}
    \cup {NotArray(<<"heart">>)}

BatchBodyInputs ==
  {"<svg width=\"256\" height=\"256\" fill=\"a\"><rect width=\"8\" height=\"8\" stroke=\"b\"/></svg>",
   "404: Not Found"}

\* the get-multiple-icons requests of the model: every names value, every
\* weight, colour and size for one list, every size for two lists, and the
\* colour with a replacement pattern
BatchRequests ==
  {[names |-> l, weight |-> Undefined, color |-> Undefined,
    size |-> Undefined] : l \in NamesInputs}
    \cup {[names |-> ArrayOf(<<"Heart ">>), weight |-> w, color |-> c,
           size |-> s] :
            w \in WeightInputs, c \in {Undefined, Def("#F00")},
            s \in {Undefined, Def(0), Def(32), Def(4097)}}
    \cup {[names |-> ArrayOf(l), weight |-> Undefined, color |-> Undefined,
           size |-> s] :
            l \in {<<"heart">>, <<"heart", "a/b">>}, s \in SizeInputs}
    \cup {[names |-> ArrayOf(<<"heart">>), weight |-> w, color |-> Def("$&"),
           size |-> Undefined] : w \in {Undefined, Def("fill")}}

\* the search-icons requests of the model
QueryInputs ==
  {"", " ", "heart", "HEART", " Heart ", "a", "A ", "love", "media", "Media",
   "in", "xyz", "-"}
LimitInputs ==
  {Undefined} \cup
    {Def(v) : v \in {Num(-1), 0, 1, Num(1), Num(1) + 1, Num(2), Num(10),
                     Num(100), Num(100) + 1, Num(101)}}
SearchRequests == {[query |-> q, limit |-> l] : q \in QueryInputs, l \in LimitInputs}

(***************************************************************************)
(* State.                                                                  *)
(***************************************************************************)
VARIABLES
  config,     \* the server configuration: [defaultWeight]
  gpc,        \* get-icon: "idle", "fetch" (awaiting fetch), "text" (awaiting
              \* response.text()), "done" (response returned)
  greq,       \* get-icon: the arguments of the request
  glocal,     \* get-icon: sanitizedName, selectedWeight and url
  gtimer,     \* get-icon: the timeout timer: "none", "armed", "fired", "cleared"
  gresponse,  \* get-icon: the Response of the fetch: its status and body text
  gres,       \* get-icon: the response returned
  gfetched,   \* get-icon: the URLs passed to fetch, in order
  mpc,        \* get-multiple-icons: as gpc
  mreq,       \* get-multiple-icons: the arguments of the request
  mi,         \* get-multiple-icons: index in names of the name being fetched
  mlocal,     \* get-multiple-icons: sanitizedName and url of that name
  mtimers,    \* get-multiple-icons: the timers armed so far, one per fetch
  mresponses, \* get-multiple-icons: the Response of each fetch so far
  mresults,   \* get-multiple-icons: the results array
  mres,       \* get-multiple-icons: the response returned
  mfetched,   \* get-multiple-icons: the URLs passed to fetch, in order
  spc,        \* search-icons: "idle", "done"
  sreq,       \* the search-icons request: [query, limit]
  sres,       \* the search-icons response
  cpc,        \* list-categories: "idle", "done"
  cres,       \* the list-categories response
  catalog,    \* the elements of the POPULAR_ICONS array as the process runs
  rpc,        \* the phosphor://catalog resource: "idle", "done"
  rres        \* the contents returned for phosphor://catalog

gvars == <<gpc, greq, glocal, gtimer, gresponse, gres, gfetched>>
mvars ==
  <<mpc, mreq, mi, mlocal, mtimers, mresponses, mresults, mres, mfetched>>
svars == <<spc, sreq, sres>>
cvars == <<cpc, cres>>
kvars == <<catalog, rpc, rres>>
vars ==
  <<config, gpc, greq, glocal, gtimer, gresponse, gres, gfetched,
    mpc, mreq, mi, mlocal, mtimers, mresponses, mresults, mres, mfetched,
    spc, sreq, sres, cpc, cres, catalog, rpc, rres>>

NoRequest ==
  [name |-> "", weight |-> Undefined, color |-> Undefined, size |-> Undefined]
NoBatchRequest ==
  [isArray |-> FALSE, names |-> <<>>, weight |-> Undefined,
   color |-> Undefined, size |-> Undefined]
NoSearchRequest == [query |-> "", limit |-> Undefined]
NoSearchResponse ==
  [isError |-> FALSE, kind |-> "none", matches |-> <<>>, categories |-> 0,
   categoryList |-> <<>>]
SearchResponse(isError, kind, matches, categories) ==
  [isError |-> isError, kind |-> kind, matches |-> matches,
   categories |-> Len(categories), categoryList |-> Slice(categories, 5)]
NoCategoriesResponse ==
  [isError |-> FALSE, kind |-> "none", categoryList |-> <<>>,
   exampleCategory |-> "", exampleIcons |-> <<>>]
NoCatalogContents == [count |-> 0, entries |-> <<>>]
NoLocal == [sanitizedName |-> "", selectedWeight |-> "", url |-> ""]
\* the Response of a fetch: nothing received yet, the status received, the
\* body text read
NoHttp == [received |-> FALSE, status |-> 0, read |-> FALSE, body |-> ""]
HttpStatus(status) ==
  [received |-> TRUE, status |-> status, read |-> FALSE, body |-> ""]
HttpBody(response, body) == [response EXCEPT !.read = TRUE, !.body = body]

NoResponse ==
  [isError |-> FALSE, kind |-> "none", svg |-> "", similar |-> <<>>,
   cause |-> ""]
NoBatchResponse ==
  [isError |-> FALSE, kind |-> "none", selectedWeight |-> "",
   results |-> <<>>]

\* a response of get-icon; kind names the text of the response:
\*   "name_required"  Error: Icon name is required ...
\*   "invalid_name"   Error: Invalid icon name '...' ...
\*   "invalid_size"   Error: Size must be a positive number ...
\*   "timeout"        Error: Request timeout. ...
\*   "not_found"      Error: Icon '...' not found with weight '...' ...
\*   "invalid_svg"    Error: Invalid SVG content received ...
\*   "exception"      Error fetching icon: <cause> ...
\*   "ok"             # name (weight...) followed by the markup
Response(isError, kind, svg, similar, cause) ==
  [isError |-> isError, kind |-> kind, svg |-> svg, similar |-> similar,
   cause |-> cause]

\* an element of results in get-multiple-icons; kind names its text:
\*   "invalid_name"  Error: Invalid icon name      "timeout"  Error: Request timeout
\*   "not_found"     Not found (Similar: ...)      "exception" Error: <cause>
\*   "ok"            the markup
Entry(name, kind, svg, similar, cause) ==
  [name |-> name, kind |-> kind, svg |-> svg, similar |-> similar,
   cause |-> cause]

\* mutant of ClearTimeout: the timer is left as it is
ClearTimeoutLeavesArmed(timer) == timer

\* clearTimeout(timeoutId)
ClearTimeout(timer) == IF timer = "armed" THEN "cleared" ELSE timer

Init ==
  /\ config \in {[defaultWeight |-> w] : w \in Weights}
  /\ gpc = "idle"
  /\ greq = NoRequest
  /\ glocal = NoLocal
  /\ gtimer = "none"
  /\ gresponse = NoHttp
  /\ gres = NoResponse
  /\ gfetched = <<>>
  /\ mpc = "idle"
  /\ mreq = NoBatchRequest
  /\ mi = 0
  /\ mlocal = NoLocal
  /\ mtimers = <<>>
  /\ mresponses = <<>>
  /\ mresults = <<>>
  /\ mres = NoBatchResponse
  /\ mfetched = <<>>
  /\ spc = "idle"
  /\ sreq = NoSearchRequest
  /\ sres = NoSearchResponse
  /\ cpc = "idle"
  /\ cres = NoCategoriesResponse
  /\ catalog = POPULAR_ICONS
  /\ rpc = "idle"
  /\ rres = NoCatalogContents

(***************************************************************************)
(* get-icon.                                                               *)
(***************************************************************************)
\* return a response from the get-icon handler
GetIconReturn(response) ==
  /\ gpc' = "done"
  /\ gres' = response

\* the handler from its entry to its first await (or an early return)
GetIcon(name, weight, color, size) ==
  /\ gpc = "idle"
  /\ greq' = [name |-> name, weight |-> weight, color |-> color,
              size |-> size]
  /\ IF NameMissing(name)
       THEN /\ GetIconReturn(Response(TRUE, "name_required", "", <<>>, ""))
            /\ UNCHANGED <<glocal, gtimer, gresponse, gfetched>>
     ELSE IF NameRejected(name)
       THEN /\ GetIconReturn(Response(TRUE, "invalid_name", "", <<>>, ""))
            /\ UNCHANGED <<glocal, gtimer, gresponse, gfetched>>
     ELSE IF SizeRejected(size)
       THEN /\ GetIconReturn(Response(TRUE, "invalid_size", "", <<>>, ""))
            /\ UNCHANGED <<glocal, gtimer, gresponse, gfetched>>
     ELSE LET sanitizedName == Sanitize(name)
              selectedWeight == SelectWeight(weight, config)
              url == AssetUrl(selectedWeight,
                              FileName(sanitizedName, selectedWeight))
          IN  /\ glocal' = [sanitizedName |-> sanitizedName,
                            selectedWeight |-> selectedWeight, url |-> url]
              /\ gtimer' = "armed"
              /\ gfetched' = Append(gfetched, url)
              /\ gpc' = "fetch"
              /\ UNCHANGED <<gresponse, gres>>
  /\ UNCHANGED <<config, kvars, svars, cvars, mvars>>

\* fetch resolves with a response of the given status
GetIconResponse(status) ==
  /\ gpc = "fetch"
  /\ gresponse' = HttpStatus(status)
  /\ gtimer' = ClearTimeout(gtimer)
  /\ IF ~ResponseOk(status)
       THEN GetIconReturn(
              Response(TRUE, "not_found", "",
                       IconNames(SimilarIcons(glocal.sanitizedName)), ""))
       ELSE gpc' = "text" /\ UNCHANGED gres
  /\ UNCHANGED <<config, kvars, svars, cvars, greq, glocal, gfetched, mvars>>

\* mutant of GetIconTimeout: the abort is handled as a missing icon
GetIconTimeoutAsNotFound ==
  /\ gpc = "fetch"
  /\ gtimer = "armed"
  /\ gtimer' = ClearTimeout("fired")
  /\ GetIconReturn(
       Response(TRUE, "not_found", "",
                IconNames(SimilarIcons(glocal.sanitizedName)), ""))
  /\ UNCHANGED <<config, kvars, svars, cvars, greq, glocal, gresponse, gfetched, mvars>>

\* the timer fires while the fetch is pending: controller.abort() rejects the
\* fetch with an AbortError
GetIconTimeout ==
  /\ gpc = "fetch"
  /\ gtimer = "armed"
  /\ gtimer' = ClearTimeout("fired")
  /\ GetIconReturn(Response(TRUE, "timeout", "", <<>>, ""))
  /\ UNCHANGED <<config, kvars, svars, cvars, greq, glocal, gresponse, gfetched, mvars>>

\* mutant of GetIconFetchError: the fetch is issued again after a failure
GetIconFetchErrorRetries(cause) ==
  /\ gpc = "fetch"
  /\ gtimer' = "armed"
  /\ gfetched' = Append(gfetched, glocal.url)
  /\ UNCHANGED <<config, kvars, svars, cvars, gpc, greq, glocal, gresponse, gres,
                 mvars>>

\* fetch rejects with an error other than an AbortError: rethrown to the
\* outer catch
GetIconFetchError(cause) ==
  /\ gpc = "fetch"
  /\ gtimer' = ClearTimeout(gtimer)
  /\ GetIconReturn(Response(TRUE, "exception", "", <<>>, cause))
  /\ UNCHANGED <<config, kvars, svars, cvars, greq, glocal, gresponse, gfetched, mvars>>

\* response.text() resolves with the body
GetIconBody(body) ==
  /\ gpc = "text"
  /\ gresponse' = HttpBody(gresponse, body)
  /\ IF ~LooksLikeSvg(body)
       THEN GetIconReturn(Response(TRUE, "invalid_svg", "", <<>>, ""))
       ELSE GetIconReturn(
              Response(FALSE, "ok",
                       StyleIcon(body, glocal.selectedWeight, greq.color,
                                 greq.size),
                       <<>>, ""))
  /\ UNCHANGED <<config, kvars, svars, cvars, greq, glocal, gtimer, gfetched, mvars>>

\* mutant of GetIconBodyError: the rejection of the body read is not caught
\* and its message is lost
GetIconBodyErrorUncaught(cause) ==
  /\ gpc = "text"
  /\ GetIconReturn(Response(FALSE, "thrown", "", <<>>, ""))
  /\ UNCHANGED <<config, kvars, svars, cvars, greq, glocal, gtimer, gresponse, gfetched, mvars>>

\* response.text() rejects: caught by the outer catch
GetIconBodyError(cause) ==
  /\ gpc = "text"
  /\ GetIconReturn(Response(TRUE, "exception", "", <<>>, cause))
  /\ UNCHANGED <<config, kvars, svars, cvars, greq, glocal, gtimer, gresponse, gfetched, mvars>>

(***************************************************************************)
(* get-multiple-icons.                                                     *)
(***************************************************************************)
\* clearTimeout(timeoutId) for the timer of the fetch in flight
ClearLast(timers) == [timers EXCEPT ![Len(timers)] = ClearTimeout(@)]

\* the Response of the fetch in flight
SetLast(responses, response) ==
  [responses EXCEPT ![Len(responses)] = response]

\* the timer of the fetch in flight fires
FireLast(timers) == [timers EXCEPT ![Len(timers)] = "fired"]

\* mutant of BatchScan: a blank name is skipped without an entry
RECURSIVE BatchScanSkipsSilently(_, _, _)
BatchScanSkipsSilently(names, i, results) ==
  IF i > Len(names) THEN [i |-> i, results |-> results]
  ELSE IF NameMissing(names[i])
    THEN BatchScanSkipsSilently(names, i + 1, results)
    ELSE [i |-> i, results |-> results]

\* the for loop from names[i] on, up to the next await: blank names are
\* recorded and skipped (continue); yields the index of the first name that
\* is fetched (Len(names) + 1 when the loop ends) and the results so far
RECURSIVE BatchScan(_, _, _)
BatchScan(names, i, results) ==
  IF i > Len(names) THEN [i |-> i, results |-> results]
  ELSE IF NameMissing(names[i])
    THEN BatchScan(names, i + 1,
                   Append(results,
                          Entry(names[i], "invalid_name", "", <<>>, "")))
    ELSE [i |-> i, results |-> results]

\* the loop resumes at names[i] with the given results and timers: it either
\* arms a timer and starts the fetch of the next name, or leaves the loop and
\* returns the response
BatchResume(request, i, results, timers, responses) ==
  LET scan == BatchScan(request.names, i, results)
      selectedWeight == SelectWeight(request.weight, config)
  IN  IF scan.i > Len(request.names)
        THEN /\ mpc' = "done"
             /\ mres' = [isError |-> FALSE, kind |-> "batch",
                         selectedWeight |-> selectedWeight,
                         results |-> scan.results]
             /\ mresults' = scan.results
             /\ mtimers' = timers
             /\ mresponses' = responses
             /\ UNCHANGED <<mi, mlocal, mfetched>>
        ELSE LET sanitizedName == Sanitize(request.names[scan.i])
                 url == AssetUrl(selectedWeight,
                                 FileName(sanitizedName, selectedWeight))
             IN  /\ mpc' = "fetch"
                 /\ mi' = scan.i
                 /\ mlocal' = [sanitizedName |-> sanitizedName,
                               selectedWeight |-> selectedWeight,
                               url |-> url]
                 /\ mtimers' = Append(timers, "armed")
                 /\ mresponses' = Append(responses, NoHttp)
                 /\ mfetched' = Append(mfetched, url)
                 /\ mresults' = scan.results
                 /\ UNCHANGED mres

\* the handler from its entry to its first await (or its return)
GetMultipleIcons(names, weight, color, size) ==
  /\ mpc = "idle"
  /\ mreq' = [isArray |-> names.isArray, names |-> names.items,
              weight |-> weight, color |-> color, size |-> size]
  /\ IF NamesMissing(names)
       THEN /\ mpc' = "done"
            /\ mres' = [isError |-> TRUE, kind |-> "names_required",
                        selectedWeight |-> "", results |-> <<>>]
            /\ UNCHANGED <<mi, mlocal, mtimers, mresponses, mresults,
                           mfetched>>
     ELSE IF TooManyNames(names)
       THEN /\ mpc' = "done"
            /\ mres' = [isError |-> TRUE, kind |-> "too_many_names",
                        selectedWeight |-> "", results |-> <<>>]
            /\ UNCHANGED <<mi, mlocal, mtimers, mresponses, mresults,
                           mfetched>>
     ELSE IF SizeRejected(size)
       THEN /\ mpc' = "done"
            /\ mres' = [isError |-> TRUE, kind |-> "invalid_size",
                        selectedWeight |-> "", results |-> <<>>]
            /\ UNCHANGED <<mi, mlocal, mtimers, mresponses, mresults,
                           mfetched>>
     ELSE BatchResume([isArray |-> names.isArray, names |-> names.items,
                       weight |-> weight, color |-> color, size |-> size],
                      1, <<>>, <<>>, <<>>)
  /\ UNCHANGED <<config, kvars, svars, cvars, gvars>>

\* mutant of BatchResponse: on an OK status the loop goes on to the next
\* name while the body is still to be read
BatchResponseStartsNext(status) ==
  /\ mpc = "fetch"
  /\ BatchResume(mreq, mi + 1,
                 IF ResponseOk(status)
                   THEN mresults
                   ELSE Append(mresults,
                               Entry(mreq.names[mi], "not_found", "",
                                     IconNames(BatchSimilarIcons(
                                                 mlocal.sanitizedName)),
                                     "")),
                 ClearLast(mtimers), SetLast(mresponses, HttpStatus(status)))
  /\ UNCHANGED <<config, kvars, svars, cvars, mreq, gvars>>

\* the fetch of names[mi] resolves with a response of the given status; a
\* not-OK status records the not-found entry and the loop goes on
BatchResponse(status) ==
  /\ mpc = "fetch"
  /\ IF ResponseOk(status)
       THEN /\ mpc' = "text"
            /\ mtimers' = ClearLast(mtimers)
            /\ mresponses' = SetLast(mresponses, HttpStatus(status))
            /\ UNCHANGED <<mi, mlocal, mresults, mres, mfetched>>
       ELSE BatchResume(
              mreq, mi + 1,
              Append(mresults,
                     Entry(mreq.names[mi], "not_found", "",
                           IconNames(BatchSimilarIcons(mlocal.sanitizedName)),
                           "")),
              ClearLast(mtimers), SetLast(mresponses, HttpStatus(status)))
  /\ UNCHANGED <<config, kvars, svars, cvars, mreq, gvars>>

\* mutant of BatchTimeout: one controller is shared, its abort reaches the
\* fetch of get-icon too
BatchTimeoutAbortsAll ==
  /\ mpc = "fetch"
  /\ mtimers[Len(mtimers)] = "armed"
  /\ BatchResume(mreq, mi + 1,
                 Append(mresults,
                        Entry(mreq.names[mi], "timeout", "", <<>>, "")),
                 ClearLast(FireLast(mtimers)), mresponses)
  /\ gtimer' = IF gtimer = "armed" THEN "fired" ELSE gtimer
  /\ UNCHANGED <<config, kvars, svars, cvars, mreq, gpc, greq, glocal, gresponse,
                 gres, gfetched>>

\* the timer fires while the fetch of names[mi] is pending
BatchTimeout ==
  /\ mpc = "fetch"
  /\ mtimers[Len(mtimers)] = "armed"
  /\ BatchResume(mreq, mi + 1,
                 Append(mresults,
                        Entry(mreq.names[mi], "timeout", "", <<>>, "")),
                 ClearLast(FireLast(mtimers)), mresponses)
  /\ UNCHANGED <<config, kvars, svars, cvars, mreq, gvars>>

\* the fetch of names[mi] rejects with an error other than an AbortError:
\* rethrown to the catch of the loop body
BatchFetchError(cause) ==
  /\ mpc = "fetch"
  /\ BatchResume(mreq, mi + 1,
                 Append(mresults,
                        Entry(mreq.names[mi], "exception", "", <<>>, cause)),
                 ClearLast(mtimers), mresponses)
  /\ UNCHANGED <<config, kvars, svars, cvars, mreq, gvars>>

\* response.text() of names[mi] resolves with the body
BatchBody(body) ==
  /\ mpc = "text"
  /\ BatchResume(mreq, mi + 1,
                 Append(mresults,
                        Entry(mreq.names[mi], "ok",
                              BatchStyleIcon(body, mlocal.selectedWeight,
                                             mreq.color, mreq.size),
                              <<>>, "")),
                 mtimers,
                 SetLast(mresponses,
                         HttpBody(mresponses[Len(mresponses)], body)))
  /\ UNCHANGED <<config, kvars, svars, cvars, mreq, gvars>>

\* response.text() of names[mi] rejects: caught by the catch of the loop body
BatchBodyError(cause) ==
  /\ mpc = "text"
  /\ BatchResume(mreq, mi + 1,
                 Append(mresults,
                        Entry(mreq.names[mi], "exception", "", <<>>, cause)),
                 mtimers, mresponses)
  /\ UNCHANGED <<config, kvars, svars, cvars, mreq, gvars>>

(***************************************************************************)
(* search-icons and list-categories: each handler runs to its return        *)
(* without an await.                                                       *)
(***************************************************************************)
SearchIcons(query, limit) ==
  /\ spc = "idle"
  /\ spc' = "done"
  /\ sreq' = [query |-> query, limit |-> limit]
  /\ LET lim == DefaultLimit(limit)
         searchTerm == SearchTerm(query)
         matches == SearchMatches(searchTerm, SafeLimit(lim))
     IN  /\ sres' =
           IF QueryMissing(query)
             THEN SearchResponse(TRUE, "query_required", <<>>, <<>>)
           ELSE IF LimitRejected(lim)
             THEN SearchResponse(TRUE, "invalid_limit", <<>>, <<>>)
           ELSE IF Len(matches) = 0
             THEN SearchResponse(FALSE, "no_matches", <<>>, Categories)
           ELSE SearchResponse(FALSE, "found", matches, <<>>)
         /\ catalog' =
              IF ~QueryMissing(query) /\ ~LimitRejected(lim)
                   /\ Len(matches) = 0
                THEN CatalogAfterCategories(catalog)
                ELSE catalog
  /\ UNCHANGED <<config, rpc, rres, gvars, mvars, cvars>>

ListCategories ==
  /\ cpc = "idle"
  /\ cpc' = "done"
  /\ LET categories == Categories
         exampleCategory == categories[1]
     IN  cres' =
           [isError |-> FALSE, kind |-> "categories",
            categoryList |->
              [k \in 1..Len(categories) |-> CategoryLine(categories[k])],
            exampleCategory |-> exampleCategory,
            exampleIcons |->
              IconNames(Slice(SelectSeq(POPULAR_ICONS,
                                        LAMBDA icon :
                                          icon.category = exampleCategory),
                              3))]
  /\ catalog' = CatalogAfterCategories(catalog)
  /\ UNCHANGED <<config, rpc, rres, gvars, mvars, svars>>

\* the read callback of the phosphor://catalog resource
ReadCatalog ==
  /\ rpc = "idle"
  /\ rpc' = "done"
  /\ rres' = [count |-> Len(POPULAR_ICONS),
              entries |-> [k \in 1..Len(POPULAR_ICONS) |->
                             CatalogEntryText(POPULAR_ICONS[k])]]
  /\ UNCHANGED <<config, catalog, gvars, mvars, svars, cvars>>

(***************************************************************************)
(* Specifications.  One invocation is handled per behaviour: a get-icon,   *)
(* get-multiple-icons, search-icons or list-categories request, or a read  *)
(* of the catalog resource.                                                *)
(***************************************************************************)
IconStart ==
  /\ mpc = "idle"
  /\ spc = "idle"
  /\ cpc = "idle"
  /\ rpc = "idle"
  /\ \E r \in IconRequests : GetIcon(r.name, r.weight, r.color, r.size)

IconResponse == \E status \in StatusInputs : GetIconResponse(status)

IconTimeout == GetIconTimeout

IconFetchError == \E cause \in FetchCauseInputs : GetIconFetchError(cause)

IconBody == \E body \in BodyInputs : GetIconBody(body)

IconBodyError == \E cause \in BodyCauseInputs : GetIconBodyError(cause)

BatchStart ==
  /\ gpc = "idle"
  /\ spc = "idle"
  /\ cpc = "idle"
  /\ rpc = "idle"
  /\ \E r \in BatchRequests :
       GetMultipleIcons(r.names, r.weight, r.color, r.size)

BatchItemResponse == \E status \in StatusInputs : BatchResponse(status)

BatchItemTimeout == BatchTimeout

BatchItemFetchError == \E cause \in FetchCauseInputs : BatchFetchError(cause)

BatchItemBody == \E body \in BatchBodyInputs : BatchBody(body)

BatchItemBodyError == \E cause \in BodyCauseInputs : BatchBodyError(cause)

SearchStart ==
  /\ gpc = "idle"
  /\ mpc = "idle"
  /\ cpc = "idle"
  /\ rpc = "idle"
  /\ \E r \in SearchRequests : SearchIcons(r.query, r.limit)

CategoriesStart ==
  /\ gpc = "idle"
  /\ mpc = "idle"
  /\ spc = "idle"
  /\ rpc = "idle"
  /\ ListCategories

ResourceStart ==
  /\ gpc = "idle"
  /\ mpc = "idle"
  /\ spc = "idle"
  /\ cpc = "idle"
  /\ ReadCatalog

Next ==
  \/ IconStart
  \/ IconResponse
  \/ IconTimeout
  \/ IconFetchError
  \/ IconBody
  \/ IconBodyError
  \/ BatchStart
  \/ BatchItemResponse
  \/ BatchItemTimeout
  \/ BatchItemFetchError
  \/ BatchItemBody
  \/ BatchItemBodyError
  \/ SearchStart
  \/ CategoriesStart
  \/ ResourceStart

Spec == Init /\ [][Next]_vars

\* Concurrent invocations: a get-icon request and a get-multiple-icons
\* request are handled at the same time, their awaits interleaved.
ConcInit == Init /\ config = [defaultWeight |-> "regular"]

ConcIconRequests ==
  {[name |-> "heart", weight |-> Undefined, color |-> Undefined,
    size |-> Undefined]}

ConcBatchRequests ==
  {[names |-> ArrayOf(<<"heart", "map">>), weight |-> Undefined,
    color |-> Undefined, size |-> Undefined]}

ConcIconStart ==
  \E r \in ConcIconRequests : GetIcon(r.name, r.weight, r.color, r.size)

ConcBatchStart ==
  \E r \in ConcBatchRequests :
    GetMultipleIcons(r.names, r.weight, r.color, r.size)

ConcNext ==
  \/ ConcIconStart
  \/ IconResponse
  \/ IconTimeout
  \/ IconFetchError
  \/ IconBody
  \/ IconBodyError
  \/ ConcBatchStart
  \/ BatchItemResponse
  \/ BatchItemTimeout
  \/ BatchItemFetchError
  \/ BatchItemBody
  \/ BatchItemBodyError

ConcSpec == ConcInit /\ [][ConcNext]_vars

\* Repeated invocations: every catalog reader is invoked again and again, in
\* any order, while a get-icon request is in progress.
CatalogSearchRequests ==
  {[query |-> q, limit |-> l] :
     q \in {"heart", "xyz"}, l \in {Undefined, Def(Num(1))}}

CatalogSearchStart ==
  \E r \in CatalogSearchRequests : SearchIcons(r.query, r.limit)

\* a handler that has returned is ready for its next invocation
SearchAgain ==
  /\ spc = "done"
  /\ spc' = "idle"
  /\ UNCHANGED <<config, kvars, gvars, mvars, sreq, sres, cvars>>

CategoriesAgain ==
  /\ cpc = "done"
  /\ cpc' = "idle"
  /\ UNCHANGED <<config, kvars, gvars, mvars, svars, cres>>

ResourceAgain ==
  /\ rpc = "done"
  /\ rpc' = "idle"
  /\ UNCHANGED <<config, catalog, rres, gvars, mvars, svars, cvars>>

CatalogNext ==
  \/ CatalogSearchStart
  \/ SearchAgain
  \/ ListCategories
  \/ CategoriesAgain
  \/ ReadCatalog
  \/ ResourceAgain
  \/ ConcIconStart
  \/ IconResponse
  \/ IconTimeout
  \/ IconFetchError
  \/ IconBody
  \/ IconBodyError

CatalogSpec == ConcInit /\ [][CatalogNext]_vars

\* the timers armed by setTimeout fire when they are left armed; the upstream
\* is under no obligation to answer or to deliver a body
FairSpec == Spec /\ WF_vars(IconTimeout) /\ WF_vars(BatchItemTimeout)

(***************************************************************************)
(* Properties.                                                             *)
(***************************************************************************)
\* the trimmed, lower-cased name is empty or has a character outside
\* [a-z0-9-]
DirtyName(name) ==
  LET t == ToLowerCase(Trim(name))
  IN  t = "" \/ \E i \in 1..Len(t) : CharAt(t, i) \notin AllowedChars

\* C1: a get-icon request whose name, trimmed and lower-cased, is empty or
\* has a character outside [a-z0-9-] ends with an error response and no
\* fetch is ever issued for it.
C1_DirtyNameNeverFetched ==
  (gpc # "idle" /\ DirtyName(greq.name))
    => (gpc = "done" /\ gres.isError /\ gfetched = <<>>)

\* a name with disallowed characters that would leave a non-empty cleaned
\* name has been rejected
C1_Witness ==
  /\ gpc = "done"
  /\ DirtyName(greq.name)
  /\ StripDisallowed(ToLowerCase(Trim(greq.name))) # ""
  /\ gres.isError
  /\ gfetched = <<>>

\* url is {base}/{weight}/{stem}.svg with a stem over [a-z0-9-]
IsAssetUrl(url) ==
  \E w \in Weights :
    LET prefix == PHOSPHOR_CORE_RAW_BASE \o "/" \o w \o "/"
    IN  /\ StartsWith(url, prefix)
        /\ Len(url) >= Len(prefix) + 4
        /\ SubSeq(url, Len(url) - 3, Len(url)) = ".svg"
        /\ \A i \in (Len(prefix) + 1)..(Len(url) - 4) :
             CharAt(url, i) \in AllowedChars

\* C2: every URL requested by get-icon or get-multiple-icons is
\* {base}/{weight}/{stem}.svg with one of the six weights and a stem over
\* [a-z0-9-]; no other character of a name reaches the path.
C2_FetchedUrlsAreSafe ==
  /\ \A k \in 1..Len(gfetched) : IsAssetUrl(gfetched[k])
  /\ \A k \in 1..Len(mfetched) : IsAssetUrl(mfetched[k])

\* a name containing a slash is being fetched by get-multiple-icons
C2_Witness ==
  /\ mpc = "fetch"
  /\ Includes(mreq.names[mi], "/")
  /\ Len(mfetched) > 0

\* the weight a request selects
RequestedWeight(weight) ==
  IF weight.defined THEN weight.value ELSE config.defaultWeight

\* the path of the asset of name n under weight w
ExpectedPath(n, w) ==
  CASE w = "regular" -> PHOSPHOR_CORE_RAW_BASE \o "/regular/" \o n \o ".svg"
    [] w = "thin" -> PHOSPHOR_CORE_RAW_BASE \o "/thin/" \o n \o "-thin.svg"
    [] w = "light" -> PHOSPHOR_CORE_RAW_BASE \o "/light/" \o n \o "-light.svg"
    [] w = "bold" -> PHOSPHOR_CORE_RAW_BASE \o "/bold/" \o n \o "-bold.svg"
    [] w = "fill" -> PHOSPHOR_CORE_RAW_BASE \o "/fill/" \o n \o "-fill.svg"
    [] w = "duotone" ->
         PHOSPHOR_CORE_RAW_BASE \o "/duotone/" \o n \o "-duotone.svg"

RECURSIVE AttrValuesFrom(_, _, _)
AttrValuesFrom(s, attr, from) ==
  LET i == MatchAttr(s, attr, from)
  IN  IF i = 0 THEN <<>>
      ELSE LET j == IndexFrom(s, "\"", i + Len(attr) + 2)
           IN  <<SubSeq(s, i + Len(attr) + 2, j - 1)>>
                 \o AttrValuesFrom(s, attr, j + 1)

AttrValues(s, attr) == AttrValuesFrom(s, attr, 1)

\* every one of the attr="..." values of before reads value in after
AllBecome(before, after, attr, value) ==
  /\ Len(AttrValues(after, attr)) = Len(AttrValues(before, attr))
  /\ \A k \in 1..Len(AttrValues(after, attr)) :
       AttrValues(after, attr)[k] = value

\* the attr="..." values are the same in before and after
AllKept(before, after, attr) ==
  AttrValues(after, attr) = AttrValues(before, attr)

\* C4: with a colour given, weight fill turns every fill="..." value into the
\* colour and leaves every stroke="..." value unchanged, and every other
\* weight turns every fill="..." and every stroke="..." value into the colour;
\* without a colour the fill and stroke values are unchanged.  (A colour is
\* taken as given when it is a non-empty string.)
C4_ColorPolicy ==
  (gpc = "done" /\ gres.kind = "ok") =>
    LET before == gresponse.body
        after == gres.svg
        given == greq.color.defined /\ greq.color.value # ""
    IN  IF ~given
          THEN AllKept(before, after, "fill") /\ AllKept(before, after, "stroke")
        ELSE IF glocal.selectedWeight = "fill"
          THEN /\ AllBecome(before, after, "fill", greq.color.value)
               /\ AllKept(before, after, "stroke")
        ELSE /\ AllBecome(before, after, "fill", greq.color.value)
             /\ AllBecome(before, after, "stroke", greq.color.value)

\* the root tag of s, from <svg to the first > after it ("" if there is none)
RootTag(s) ==
  LET i == MatchSvgTag(s)
  IN  IF i = 0 THEN "" ELSE SubSeq(s, i, IndexFrom(s, ">", i + 4))

\* tag carries an attribute named attr
TagHasAttr(tag, attr) == Includes(tag, " " \o attr \o "=\"")

\* the value of the attribute named attr of tag
TagAttr(tag, attr) ==
  LET open == " " \o attr \o "=\""
      i == IndexFrom(tag, open, 1)
  IN  SubSeq(tag, i + Len(open), IndexFrom(tag, "\"", i + Len(open)) - 1)

EndsWith(s, t) ==
  Len(t) <= Len(s) /\ SubSeq(s, Len(s) - Len(t) + 1, Len(s)) = t

\* C5: for a valid size S, markup without width= gets width="S" height="S"
\* added at the end of the root svg tag, and markup whose root tag has width
\* and height attributes has both values replaced by S.
C5_SizeApplied ==
  (/\ gpc = "done"
   /\ gres.kind = "ok"
   /\ greq.size.defined
   /\ greq.size.value >= 1
   /\ greq.size.value <= 4096) =>
    LET before == gresponse.body
        after == gres.svg
        S == NumToStr(greq.size.value)
    IN  /\ ~Includes(before, "width=")
             => EndsWith(RootTag(after),
                         " width=\"" \o S \o "\" height=\"" \o S \o "\">")
        /\ (/\ TagHasAttr(RootTag(before), "width")
            /\ TagHasAttr(RootTag(before), "height"))
             => /\ TagHasAttr(RootTag(after), "width")
                /\ TagHasAttr(RootTag(after), "height")
                /\ TagAttr(RootTag(after), "width") = S
                /\ TagAttr(RootTag(after), "height") = S

\* the request of get-multiple-icons is accepted: 1 to 50 names and a size
\* that is absent or within 1..4096
BatchAccepted ==
  /\ mreq.isArray
  /\ Len(mreq.names) >= 1
  /\ Len(mreq.names) <= 50
  /\ mreq.size.defined => (mreq.size.value >= 1 /\ mreq.size.value <= 4096)

\* C6: an accepted get-multiple-icons request lists exactly one entry per
\* input name, in the order of the names, whatever the outcome of each name,
\* and its response carries no error flag.
C6_OneEntryPerName ==
  (mpc # "idle" /\ BatchAccepted) =>
    /\ Len(mresults) <= Len(mreq.names)
    /\ \A k \in 1..Len(mresults) : mresults[k].name = mreq.names[k]
    /\ mpc = "done" =>
         /\ ~mres.isError
         /\ Len(mres.results) = Len(mreq.names)
         /\ \A k \in 1..Len(mres.results) :
              mres.results[k].name = mreq.names[k]

\* a batch has returned in which a failed name is followed by a successful one
C6_Witness ==
  /\ mpc = "done"
  /\ BatchAccepted
  /\ \E k \in 1..Len(mres.results) :
       /\ mres.results[k].kind \in {"invalid_name", "not_found", "timeout",
                                    "exception"}
       /\ \E l \in (k + 1)..Len(mres.results) : mres.results[l].kind = "ok"

\* the status is not an OK status
NotOkStatus(status) == status < 200 \/ status > 299

\* the entries of the names that were fetched, in order: the k-th of them
\* belongs to the k-th fetch
FetchedEntries ==
  SelectSeq(mresults, LAMBDA e : e.kind # "invalid_name")

\* C7: a timeout is reported as a timeout, never as not-found, and a not-OK
\* status is reported as not-found, never as a timeout: get-icon returns the
\* timeout error (without suggestions) exactly when its timer fired, and the
\* not-found error exactly when a not-OK status was received; the same holds
\* for every entry of get-multiple-icons.
C7_TimeoutDistinctFromNotFound ==
  /\ gpc = "done" =>
       /\ (gtimer = "fired") <=> (gres.kind = "timeout")
       /\ gres.kind = "timeout" => (gres.similar = <<>> /\ gres.isError)
       /\ (gresponse.received /\ NotOkStatus(gresponse.status))
            <=> (gres.kind = "not_found")
  /\ \A k \in 1..Len(FetchedEntries) :
       /\ (mtimers[k] = "fired") <=> (FetchedEntries[k].kind = "timeout")
       /\ (mresponses[k].received /\ NotOkStatus(mresponses[k].status))
            <=> (FetchedEntries[k].kind = "not_found")

\* get-icon has returned after its timer fired
C7_Witness ==
  /\ gpc = "done"
  /\ gtimer = "fired"
  /\ gres.kind = "timeout"

\* C8: the retrieval is bounded by the timeout: every get-icon request that
\* passes validation, and so starts its fetch, eventually returns a response.
C8_RequestEventuallyReturns == (gpc = "fetch") ~> (gpc = "done")

\* the body, trimmed, begins with the <svg root tag
BeginsWithSvg(body) == StartsWith(Trim(body), "<svg")

\* C9: an HTTP-OK response whose trimmed body does not begin with <svg is
\* reported as an error and never emitted as a successful result, by get-icon
\* and for every entry of get-multiple-icons.
C9_InvalidContentNeverReturned ==
  /\ (gpc = "done" /\ gresponse.read /\ ~BeginsWithSvg(gresponse.body))
       => (gres.isError /\ gres.kind # "ok")
  /\ \A k \in 1..Len(FetchedEntries) :
       (mresponses[k].read /\ ~BeginsWithSvg(mresponses[k].body))
         => FetchedEntries[k].kind # "ok"

\* the hyphen-delimited tokens of s: the maximal hyphen-free substrings
HyphenTokens(s) ==
  {SubSeq(s, p[1], p[2]) :
     p \in {q \in (1..(Len(s) + 1)) \X (0..Len(s)) :
              /\ q[2] >= q[1] - 1
              /\ \A i \in q[1]..q[2] : CharAt(s, i) # "-"
              /\ q[1] = 1 \/ CharAt(s, q[1] - 1) = "-"
              /\ q[2] = Len(s) \/ CharAt(s, q[2] + 1) = "-"}}

\* the match predicate of the suggestions
Related(icon, query) ==
  LET iconName == ToLowerCase(icon.name)
  IN  \/ Includes(iconName, query)
      \/ Includes(query, iconName)
      \/ \E t \in HyphenTokens(iconName) : Includes(query, t)
      \/ \E t \in HyphenTokens(query) : Includes(iconName, t)
      \/ \E k \in 1..Len(icon.tags) : Includes(ToLowerCase(icon.tags[k]), query)
      \/ Includes(ToLowerCase(icon.category), query)

\* names lists the first n catalog entries related to query, in catalog order
FirstRelated(names, query, n) ==
  LET related == {i \in 1..Len(POPULAR_ICONS) : Related(POPULAR_ICONS[i], query)}
  IN  /\ Len(names) = IF Cardinality(related) < n
                        THEN Cardinality(related) ELSE n
      /\ \A k \in 1..Len(names) :
           \E i \in related :
             /\ POPULAR_ICONS[i].name = names[k]
             /\ Cardinality({j \in related : j < i}) = k - 1

\* C10: on a not-found outcome the suggestions are exactly the first N
\* catalog entries, in catalog order, that satisfy the match predicate, with
\* N = 5 for get-icon and N = 3 for get-multiple-icons.
C10_SuggestionsAreFirstMatches ==
  /\ (gpc = "done" /\ gres.kind = "not_found")
       => FirstRelated(gres.similar, Sanitize(greq.name), 5)
  /\ \A k \in 1..Len(mresults) :
       mresults[k].kind = "not_found"
         => FirstRelated(mresults[k].similar, Sanitize(mresults[k].name), 3)

\* get-icon reports not-found for a name that more than five entries match
C10_Witness ==
  /\ gpc = "done"
  /\ gres.kind = "not_found"
  /\ Len(gres.similar) = 5
  /\ Cardinality({i \in 1..Len(POPULAR_ICONS) :
                    Related(POPULAR_ICONS[i], Sanitize(greq.name))}) > 5

\* C11: no exception crosses the tool boundary.  When the fetch of get-icon
\* rejects with an error other than the timeout, or the body read rejects,
\* the handler returns a response with the error flag whose text carries the
\* message of that error; in get-multiple-icons such a failure becomes the
\* inline error of that entry and the response carries no error flag.
C11_FailuresBecomeErrorResponses ==
  /\ gpc = "done" =>
       /\ (Len(gfetched) = 1 /\ ~gresponse.received /\ gtimer # "fired")
            => /\ gres.isError
               /\ gres.kind = "exception"
               /\ gres.cause \in FetchCauseInputs
       /\ (gresponse.received /\ ~NotOkStatus(gresponse.status)
             /\ ~gresponse.read)
            => /\ gres.isError
               /\ gres.kind = "exception"
               /\ gres.cause \in BodyCauseInputs
  /\ \A k \in 1..Len(FetchedEntries) :
       /\ (~mresponses[k].received /\ mtimers[k] # "fired")
            => /\ FetchedEntries[k].kind = "exception"
               /\ FetchedEntries[k].cause \in FetchCauseInputs
       /\ (mresponses[k].received /\ ~NotOkStatus(mresponses[k].status)
             /\ ~mresponses[k].read)
            => /\ FetchedEntries[k].kind = "exception"
               /\ FetchedEntries[k].cause \in BodyCauseInputs
  /\ (mpc = "done" /\ BatchAccepted) => ~mres.isError

\* get-icon has returned after the body read of an OK response failed
C11_Witness ==
  /\ gpc = "done"
  /\ gresponse.received
  /\ ~gresponse.read
  /\ gres.kind = "exception"
  /\ gres.cause \in BodyCauseInputs

\* C12: in get-multiple-icons an entry whose name, trimmed and lower-cased,
\* is empty or has a character outside [a-z0-9-] is an invalid-name entry,
\* and no fetch is issued for it.
C12_BatchDirtyNameRejected ==
  (mpc # "idle" /\ BatchAccepted) =>
    /\ \A k \in 1..Len(mresults) :
         DirtyName(mreq.names[k]) => mresults[k].kind = "invalid_name"
    /\ mpc \in {"fetch", "text"} => ~DirtyName(mreq.names[mi])

\* C13: every get-icon name that, trimmed and lower-cased, is non-empty and
\* made of [a-z0-9-] only (upper-case letters and surrounding whitespace
\* included) is not rejected as an invalid name and is fetched under its
\* normalized identifier.
C13_CleanNameAccepted ==
  (gpc # "idle" /\ ~DirtyName(greq.name)) =>
    /\ gres.kind \notin {"name_required", "invalid_name"}
    /\ (greq.size.defined => (greq.size.value >= 1 /\ greq.size.value <= 4096))
         => /\ Len(gfetched) = 1
            /\ glocal.sanitizedName = StripDisallowed(ToLowerCase(Trim(greq.name)))

\* C14: a get-icon or get-multiple-icons request whose size is present and
\* is 0, negative or above 4096 is rejected with the size error before any
\* fetch is issued (for a batch no name is fetched and no entry is made); a
\* size from 1 to 4096 and an absent size pass the size validation.  The
\* size is looked at once the name (the names list) has been accepted.
SizeOutOfRange(size) ==
  size.defined /\ (size.value < 1 \/ size.value > 4096)

C14_SizeValidatedBeforeFetch ==
  /\ gpc # "idle" =>
       /\ SizeOutOfRange(greq.size) => gfetched = <<>>
       /\ ~DirtyName(greq.name) /\ greq.name = Trim(greq.name) =>
            IF SizeOutOfRange(greq.size)
              THEN gpc = "done" /\ gres.isError /\ gres.kind = "invalid_size"
              ELSE gres.kind # "invalid_size" /\ Len(gfetched) = 1
  /\ mpc # "idle" =>
       /\ SizeOutOfRange(mreq.size) => mfetched = <<>> /\ mresults = <<>>
       /\ mreq.isArray /\ Len(mreq.names) \in 1..50 =>
            IF SizeOutOfRange(mreq.size)
              THEN mpc = "done" /\ mres.isError /\ mres.kind = "invalid_size"
              ELSE mres.kind # "invalid_size"

\* a batch of two names has been rejected for its size
C14_Witness ==
  /\ mpc = "done"
  /\ Len(mreq.names) = 2
  /\ SizeOutOfRange(mreq.size)
  /\ mres.kind = "invalid_size"

\* C15: get-multiple-icons accepts a names list of length 1 to 50 and
\* rejects an empty list, a value that is not an array and a list of 51 or
\* more names with an error response; a rejected batch issues no fetch.
C15_BatchSizeBoundary ==
  mpc # "idle" =>
    IF mreq.isArray /\ Len(mreq.names) >= 1 /\ Len(mreq.names) <= 50
      THEN /\ mres.kind \notin {"names_required", "too_many_names"}
           /\ (mpc = "done" /\ ~SizeOutOfRange(mreq.size))
                => (~mres.isError /\ mres.kind = "batch")
      ELSE /\ mpc = "done"
           /\ mres.isError
           /\ mres.kind \in {"names_required", "too_many_names"}
           /\ mfetched = <<>>
           /\ mresults = <<>>

\* a list of 51 fetchable names has been rejected
C15_Witness ==
  /\ mpc = "done"
  /\ mreq.isArray
  /\ Len(mreq.names) = 51
  /\ mreq.names[1] = "heart"
  /\ mres.kind = "too_many_names"
  /\ mfetched = <<>>

\* C16: search-icons with a limit of 0, a negative limit or a limit above
\* 100 returns an error response; with a limit L from 1 to 100 it returns at
\* most L results, and with the limit omitted at most 10.
C16_SearchLimitBoundary ==
  spc = "done" =>
    IF ~sreq.limit.defined
      THEN Trim(sreq.query) # "" =>
             /\ ~sres.isError
             /\ Len(sres.matches) <= 10
    ELSE IF sreq.limit.value <= 0 \/ sreq.limit.value > Num(100)
      THEN /\ sres.isError
           /\ sres.matches = <<>>
           /\ Trim(sreq.query) # "" => sres.kind = "invalid_limit"
    ELSE IF sreq.limit.value >= Num(1)
      THEN Trim(sreq.query) # "" =>
             /\ ~sres.isError
             /\ Num(Len(sres.matches)) <= sreq.limit.value
    ELSE TRUE

\* a search without limit has been cut to 10 results
C16_Witness ==
  /\ spc = "done"
  /\ ~sreq.limit.defined
  /\ Len(sres.matches) = 10
  /\ Len(SelectSeq(POPULAR_ICONS,
                   LAMBDA icon : Includes(icon.name, sreq.query))) > 10

\* C17: for a non-empty query q and a valid limit L the result of
\* search-icons is the first min(L, m) entries, in catalog order, of the m
\* catalog entries whose name, category or some tag contains the trimmed q
\* compared without regard to case; queries that differ only in case or
\* surrounding whitespace give the same result; an empty or whitespace-only
\* query is rejected with an error.
ContainsNoCase(field, q) ==
  \E i \in 1..Len(field), j \in 1..Len(field) :
    ToLowerCase(SubSeq(field, i, j)) = ToLowerCase(q)

Hit(icon, q) ==
  \/ ContainsNoCase(icon.name, q)
  \/ ContainsNoCase(icon.category, q)
  \/ \E k \in 1..Len(icon.tags) : ContainsNoCase(icon.tags[k], q)

Hits(q) == SelectSeq(POPULAR_ICONS, LAMBDA icon : Hit(icon, q))

WholeLimit ==
  IF sreq.limit.defined THEN sreq.limit.value \div Scale ELSE 10

ValidWholeLimit ==
  sreq.limit.defined =>
    /\ sreq.limit.value % Scale = 0
    /\ sreq.limit.value >= Num(1)
    /\ sreq.limit.value <= Num(100)

C17_SearchResultSet ==
  spc = "done" =>
    IF Trim(sreq.query) = ""
      THEN sres.isError /\ sres.kind = "query_required"
      ELSE ValidWholeLimit =>
             LET all == Hits(Trim(sreq.query))
             IN  /\ ~sres.isError
                 /\ sres.matches = SubSeq(all, 1, Min(WholeLimit, Len(all)))
                 /\ \A q \in QueryInputs :
                      (Trim(q) # "" /\
                       ToLowerCase(Trim(q)) = ToLowerCase(Trim(sreq.query)))
                        => sres.matches
                             = SearchMatches(SearchTerm(q),
                                   SafeLimit(DefaultLimit(sreq.limit)))

\* a padded upper-case query has been answered with a result list cut to the
\* limit, found through a tag
C17_Witness ==
  /\ spc = "done"
  /\ sreq.query = " Heart "
  /\ sreq.limit = Def(Num(1))
  /\ Len(sres.matches) = 1
  /\ sres.matches[1].name = "heart"

\* C18: list-categories lists exactly the distinct categories of the
\* catalog, each once, in ascending lexicographic order, each with a count
\* of at least 1 equal to the number of catalog entries of that category;
\* the counts add up to the number of catalog entries.
LexLess(a, b) ==
  \E i \in 1..Min(Len(a) + 1, Len(b)) :
    /\ SubSeq(a, 1, i - 1) = SubSeq(b, 1, i - 1)
    /\ \/ Len(a) = i - 1
       \/ /\ Len(a) >= i
          /\ CharCode(CharAt(a, i)) < CharCode(CharAt(b, i))

RECURSIVE SumOfCounts(_)
SumOfCounts(lines) ==
  IF lines = <<>> THEN 0 ELSE Head(lines).count + SumOfCounts(Tail(lines))

C18_CategoriesListed ==
  cpc = "done" =>
    LET lines == cres.categoryList
    IN  /\ {lines[k].category : k \in 1..Len(lines)}
             = {POPULAR_ICONS[i].category : i \in 1..Len(POPULAR_ICONS)}
        /\ \A k \in 1..(Len(lines) - 1) :
             LexLess(lines[k].category, lines[k + 1].category)
        /\ \A k \in 1..Len(lines) :
             /\ lines[k].count >= 1
             /\ lines[k].count
                  = Cardinality({i \in 1..Len(POPULAR_ICONS) :
                                   POPULAR_ICONS[i].category
                                     = lines[k].category})
        /\ SumOfCounts(lines) = Len(POPULAR_ICONS)

\* the categories have been listed
C18_Witness ==
  /\ cpc = "done"
  /\ Len(cres.categoryList) = 17
  /\ cres.categoryList[1].category = "arrows"
  /\ cres.categoryList[17].category = "weather"

\* the attributes the colour step rewrites for a weight
RewrittenAttrs(selectedWeight) ==
  IF selectedWeight = "fill" THEN {"fill"} ELSE {"fill", "stroke"}

\* C19: the colour is substituted verbatim: for a non-empty colour c without
\* a double quote, after the colour step every rewritten fill/stroke
\* attribute reads attr="c", character for character, in get-icon and in
\* every entry of get-multiple-icons.
C19_ColorVerbatim ==
  /\ (gpc = "done" /\ gres.kind = "ok"
        /\ greq.color.defined /\ greq.color.value # ""
        /\ ~Includes(greq.color.value, "\""))
       => \A attr \in RewrittenAttrs(glocal.selectedWeight) :
            Includes(gresponse.body, attr \o "=\"")
              => /\ Includes(gres.svg, attr \o "=\"" \o greq.color.value \o "\"")
                 /\ \A k \in 1..Len(AttrValues(gres.svg, attr)) :
                      AttrValues(gres.svg, attr)[k] = greq.color.value
  /\ (mpc = "done" /\ mreq.color.defined /\ mreq.color.value # ""
        /\ ~Includes(mreq.color.value, "\""))
       => \A e \in 1..Len(FetchedEntries) :
            FetchedEntries[e].kind = "ok"
              => \A attr \in RewrittenAttrs(mres.selectedWeight) :
                   Includes(mresponses[e].body, attr \o "=\"")
                     => /\ Includes(FetchedEntries[e].svg,
                                    attr \o "=\"" \o mreq.color.value \o "\"")
                        /\ \A k \in 1..Len(AttrValues(FetchedEntries[e].svg,
                                                      attr)) :
                             AttrValues(FetchedEntries[e].svg, attr)[k]
                               = mreq.color.value

\* C20: a not-found response is produced exactly when the upstream has no
\* asset at the resolved path (status 404), in get-icon and for every entry
\* of get-multiple-icons, so that a missing icon can be told from a failing
\* upstream.
NoSuchAsset(response) == response.received /\ response.status = 404

C20_NotFoundOnlyForMissingAsset ==
  /\ gpc = "done" => (gres.kind = "not_found" <=> NoSuchAsset(gresponse))
  /\ \A k \in 1..Len(FetchedEntries) :
       FetchedEntries[k].kind = "not_found" <=> NoSuchAsset(mresponses[k])

\* s matches ^[a-z0-9-]*$
OnlyAllowedChars(s) == \A i \in 1..Len(s) : CharAt(s, i) \in AllowedChars

\* the names a handler has been given
NamesGiven ==
  (IF gpc # "idle" THEN {greq.name} ELSE {})
    \cup {mreq.names[k] : k \in 1..Len(mreq.names)}

\* C21: sanitization is idempotent and its output matches ^[a-z0-9-]*$: for
\* every name s given to a handler, sanitize(sanitize(s)) = sanitize(s) and
\* sanitize(s) has only characters of [a-z0-9-]; so has every sanitizedName
\* the handlers hold.
C21_SanitizeIdempotent ==
  /\ \A s \in NamesGiven :
       /\ Sanitize(Sanitize(s)) = Sanitize(s)
       /\ OnlyAllowedChars(Sanitize(s))
  /\ \A held \in {glocal.sanitizedName, mlocal.sanitizedName} :
       /\ OnlyAllowedChars(held)
       /\ Sanitize(held) = held

\* the batch handler holds the sanitized form of a name with a disallowed
\* character
C21_Witness ==
  /\ mpc = "fetch"
  /\ mreq.names[mi] = "a/b"
  /\ mlocal.sanitizedName = "ab"

\* C22: a single attempt, no retries: get-icon issues at most one fetch per
\* request and get-multiple-icons at most one fetch per entry of names (at
\* most 50 per batch), whatever the outcome of the fetch; a request rejected
\* by name, size or batch-size validation issues no fetch.
C22_SingleAttempt ==
  /\ Len(gfetched) <= 1
  /\ gpc = "done" =>
       IF gres.kind \in {"name_required", "invalid_name", "invalid_size"}
         THEN gfetched = <<>>
         ELSE Len(gfetched) = 1
  /\ Len(mfetched) <= Len(mreq.names)
  /\ Len(mfetched) <= 50
  /\ Len(mfetched)
       = Len(FetchedEntries) + (IF mpc \in {"fetch", "text"} THEN 1 ELSE 0)
  /\ mpc = "done" =>
       IF mres.isError
         THEN mfetched = <<>>
         ELSE Len(mfetched)
                = Cardinality({k \in 1..Len(mreq.names) :
                                 Trim(mreq.names[k]) # ""})

\* a batch of two names has returned after one fetch per name, the first
\* failed by a transport error and the second by a timeout
C22_Witness ==
  /\ mpc = "done"
  /\ Len(mreq.names) = 2
  /\ Len(mfetched) = 2
  /\ mresults[1].kind = "exception"
  /\ mresults[2].kind = "timeout"

\* C23: every timer armed for a fetch is cleared on the success path and on
\* every failure path: a timer is pending only while its own fetch is
\* awaited, and none is pending once the handler has returned.
C23_TimersReleased ==
  /\ gtimer = "armed" => gpc = "fetch"
  /\ gpc = "text" => gtimer = "cleared"
  /\ gpc = "done" => gtimer # "armed"
  /\ \A k \in 1..Len(mtimers) :
       mtimers[k] = "armed" => (k = Len(mtimers) /\ mpc = "fetch")
  /\ mpc = "text" => mtimers[Len(mtimers)] = "cleared"
  /\ mpc = "done" => \A k \in 1..Len(mtimers) : mtimers[k] # "armed"

\* get-icon has returned after a transport error, with its timer cleared
C23_Witness ==
  /\ gpc = "done"
  /\ gres.kind = "exception"
  /\ ~gresponse.received
  /\ gtimer = "cleared"

\* the timer of get-icon fires in this step
IconTimerFires == gtimer = "armed" /\ gtimer' = "fired"

\* the timer of the k-th fetch of the batch fires in this step
BatchTimerFires(k) ==
  /\ k \in 1..Len(mtimers)
  /\ mtimers[k] = "armed"
  /\ mtimers'[k] = "fired"

\* C24: each fetch has its own timeout and cancellation handle: under any
\* interleaving of a get-icon and a get-multiple-icons invocation, a timer
\* that fires aborts only its own fetch (the other invocation, the earlier
\* entries of the batch and the timers of the other fetches are untouched,
\* and the next fetch of the batch starts with a timer of its own), and
\* every fetch is reported as timed out exactly when its own timer fired.
C24_CancellationIndependent ==
  /\ [](/\ gpc = "done" => (gres.kind = "timeout" <=> gtimer = "fired")
        /\ \A k \in 1..Len(FetchedEntries) :
             FetchedEntries[k].kind = "timeout" <=> mtimers[k] = "fired")
  /\ [][/\ IconTimerFires => UNCHANGED mvars
        /\ \A k \in 1..Len(mtimers) :
             BatchTimerFires(k) =>
               /\ UNCHANGED gvars
               /\ \A j \in 1..Len(mtimers) :
                    j # k => mtimers'[j] = mtimers[j]
               /\ SubSeq(mresults', 1, Len(mresults)) = mresults
               /\ Len(mtimers') > Len(mtimers)
                    => mtimers'[Len(mtimers')] = "armed"]_vars

\* the fetch of get-icon and the first fetch of the batch timed out, and the
\* second fetch of the batch, started after that, was answered
C24_Witness ==
  /\ gpc = "done"
  /\ gres.kind = "timeout"
  /\ mpc = "done"
  /\ Len(mresults) = 2
  /\ mresults[1].kind = "timeout"
  /\ mresults[2].kind = "ok"

\* the fetches of the batch that are not settled: issued, with neither a
\* rejection nor a body read so far
UnsettledFetches ==
  {k \in 1..Len(mfetched) :
     \/ mtimers[k] = "armed"
     \/ (mresponses[k].received /\ ~NotOkStatus(mresponses[k].status)
           /\ ~mresponses[k].read /\ k > Len(FetchedEntries))}

\* C25: within one get-multiple-icons invocation at most one fetch is in
\* flight at any time, the fetch of a name starts only when the entry of
\* every earlier name has been produced, and entries are appended in input
\* order.
C25_SequentialBatch ==
  /\ [](/\ Cardinality(UnsettledFetches) <= 1
        /\ mpc \in {"fetch", "text"} =>
             /\ UnsettledFetches = {Len(mfetched)}
             /\ Len(mresults) = mi - 1
             /\ \A k \in 1..Len(mresults) : mresults[k].name = mreq.names[k])
  /\ [][/\ Len(mfetched') > Len(mfetched) =>
             /\ Len(mfetched') = Len(mfetched) + 1
             /\ UnsettledFetches = {}
                  \/ (UnsettledFetches = {Len(mfetched)}
                        /\ Len(mresults') >= mi)
             /\ Len(mresults') = mi' - 1
        /\ Len(mresults') >= Len(mresults)
        /\ SubSeq(mresults', 1, Len(mresults)) = mresults]_vars

\* the fetch of the second name is in flight, the entry of the first name
\* having been styled and appended
C25_Witness ==
  /\ mpc = "fetch"
  /\ mi = 2
  /\ Len(mfetched) = 2
  /\ Len(mresults) = 1
  /\ mresults[1].kind = "ok"
  /\ mresults[1].name = mreq.names[1]

\* the step for this size is taken (`if (size)`)
SizeGiven(size) == size.defined /\ size.value # 0

\* the step for this colour is taken (`if (color)`)
ColorGiven(color) == color.defined /\ color.value # ""

\* of the attr="..." occurrences of before, the first reads value in after
\* and every later one reads as it did
FirstOnlyRewritten(before, after, attr, value) ==
  LET old == AttrValues(before, attr)
      new == AttrValues(after, attr)
  IN  Len(old) >= 1 =>
        /\ Len(new) = Len(old)
        /\ new[1] = value
        /\ \A k \in 2..Len(old) : new[k] = old[k]

\* none of the attr="..." occurrences of before reads in after as it did
EveryOneRewritten(before, after, attr) ==
  LET old == AttrValues(before, attr)
      new == AttrValues(after, attr)
  IN  /\ Len(new) = Len(old)
      /\ \A k \in 1..Len(old) : new[k] # old[k]

Asymmetry(before, after, selectedWeight, color, size) ==
  /\ SizeGiven(size) =>
       /\ FirstOnlyRewritten(before, after, "width", NumToStr(size.value))
       /\ FirstOnlyRewritten(before, after, "height", NumToStr(size.value))
  /\ ColorGiven(color) =>
       \A attr \in RewrittenAttrs(selectedWeight) :
         EveryOneRewritten(before, after, attr)

\* C26: when a size is applied, only the first width="..." and the first
\* height="..." occurrence of the markup is rewritten and every later one
\* keeps its value; when a colour is applied, every occurrence of the
\* targeted fill/stroke attributes is rewritten and none keeps its value.
C26_ReplacementAsymmetry ==
  /\ (gpc = "done" /\ gres.kind = "ok") =>
       Asymmetry(gresponse.body, gres.svg, glocal.selectedWeight,
                 greq.color, greq.size)
  /\ mpc = "done" =>
       \A k \in 1..Len(FetchedEntries) :
         (FetchedEntries[k].kind = "ok" /\ BeginsWithSvg(mresponses[k].body))
           => Asymmetry(mresponses[k].body, FetchedEntries[k].svg,
                        mres.selectedWeight, mreq.color, mreq.size)

\* C27: the catalog is immutable: after any sequence and interleaving of
\* get-icon, search-icons, list-categories and catalog resource reads the
\* catalog has the same entries, in the same order, with the same categories
\* and tags as at process start, and no step changes it.
C27_CatalogImmutable ==
  /\ [](/\ Len(catalog) = Len(POPULAR_ICONS)
        /\ \A k \in 1..Len(POPULAR_ICONS) :
             /\ catalog[k].name = POPULAR_ICONS[k].name
             /\ catalog[k].category = POPULAR_ICONS[k].category
             /\ catalog[k].tags = POPULAR_ICONS[k].tags)
  /\ [][catalog' = catalog]_vars

\* the category list has been built by list-categories and by the no-match
\* path of search-icons, and the resource read after that lists the catalog
\* from activity on
C27_Witness ==
  /\ cpc = "done"
  /\ cres.categoryList[1].category = "arrows"
  /\ spc = "done"
  /\ sres.kind = "no_matches"
  /\ rpc = "done"
  /\ rres.count = 45
  /\ rres.entries[1].name = "activity"
  /\ gpc = "done"
  /\ gres.kind = "not_found"

\* the markup after the root tag: the child elements and the closing tag
AfterRootTag(s) ==
  LET i == MatchSvgTag(s)
  IN  SubSeq(s, IndexFrom(s, ">", i + 4) + 1, Len(s))

\* the root tag of after carries width and height value, and nothing after
\* the root tag differs from before
RootSized(before, after, value) ==
  /\ TagHasAttr(RootTag(after), "width")
  /\ TagHasAttr(RootTag(after), "height")
  /\ TagAttr(RootTag(after), "width") = value
  /\ TagAttr(RootTag(after), "height") = value
  /\ AfterRootTag(after) = AfterRootTag(before)

\* C28: for fetched markup that begins with an <svg root tag and a valid
\* size S, after the size step the root tag carries width="S" and
\* height="S" and no attribute of a child element is changed (stated here
\* for requests without a colour, where the size step is the only one).
C28_SizeOnRootOnly ==
  /\ (gpc = "done" /\ gres.kind = "ok" /\ SizeGiven(greq.size)
        /\ ~ColorGiven(greq.color))
       => RootSized(gresponse.body, gres.svg, NumToStr(greq.size.value))
  /\ (mpc = "done" /\ SizeGiven(mreq.size) /\ ~ColorGiven(mreq.color))
       => \A k \in 1..Len(FetchedEntries) :
            (FetchedEntries[k].kind = "ok"
               /\ BeginsWithSvg(mresponses[k].body))
              => RootSized(mresponses[k].body, FetchedEntries[k].svg,
                           NumToStr(mreq.size.value))

\* C29: the two handlers style alike: for the same fetched markup (OK
\* status, beginning with <svg), selected weight, colour and size, the markup
\* get-multiple-icons emits for an entry is the markup get-icon emits.  The
\* markup each handler has emitted is compared with what the other handler's
\* style step gives for the same arguments.
C29_StylingEquivalent ==
  /\ (gpc = "done" /\ gres.kind = "ok") =>
       gres.svg = BatchStyleIcon(gresponse.body, glocal.selectedWeight,
                                 greq.color, greq.size)
  /\ mpc = "done" =>
       \A k \in 1..Len(FetchedEntries) :
         (FetchedEntries[k].kind = "ok" /\ BeginsWithSvg(mresponses[k].body))
           => FetchedEntries[k].svg
                = StyleIcon(mresponses[k].body, mres.selectedWeight,
                            mreq.color, mreq.size)

\* the batch has emitted markup with a colour and a size applied under a
\* weight other than fill
C29_Witness ==
  /\ mpc = "done"
  /\ mres.selectedWeight = "duotone"
  /\ ColorGiven(mreq.color)
  /\ SizeGiven(mreq.size)
  /\ Len(mresults) = 1
  /\ mresults[1].kind = "ok"
  /\ BeginsWithSvg(mresponses[1].body)
  /\ mresults[1].svg # mresponses[1].body
  /\ Includes(mresults[1].svg, "stroke=\"" \o mreq.color.value \o "\"")

\* icon is related to query through a non-empty string
RelatedByText(icon, query) ==
  LET iconName == ToLowerCase(icon.name)
      iconTokens == HyphenTokens(iconName) \ {""}
      queryTokens == HyphenTokens(query) \ {""}
  IN  \/ query # "" /\ Includes(iconName, query)
      \/ iconName # "" /\ Includes(query, iconName)
      \/ \E t \in iconTokens : Includes(query, t)
      \/ \E t \in queryTokens : Includes(iconName, t)
      \/ /\ query # ""
         /\ \/ \E k \in 1..Len(icon.tags) :
                 Includes(ToLowerCase(icon.tags[k]), query)
            \/ Includes(ToLowerCase(icon.category), query)

\* every name of names is that of a catalog entry related to query through a
\* non-empty string
AllRelatedByText(names, query) ==
  \A k \in 1..Len(names) :
    \E i \in 1..Len(POPULAR_ICONS) :
      /\ POPULAR_ICONS[i].name = names[k]
      /\ RelatedByText(POPULAR_ICONS[i], query)

\* C30: every suggested catalog entry is related to the not-found query
\* through a non-empty string, also for queries with a leading, trailing or
\* doubled hyphen: its name, a non-empty hyphen token of it, a tag or its
\* category matches the query or a non-empty hyphen token of the query.
C30_SuggestionsRelated ==
  /\ (gpc = "done" /\ gres.kind = "not_found")
       => AllRelatedByText(gres.similar, glocal.sanitizedName)
  /\ \A k \in 1..Len(mresults) :
       mresults[k].kind = "not_found"
         => AllRelatedByText(mresults[k].similar, Sanitize(mresults[k].name))

====
